---- MODULE Spec2Model ----
(***************************************************************************)
(* chronolog: a prefixing facade over the platform logging facility        *)
(* (PrefixedLogger), its beacon timers (log_start / log_end), and the      *)
(* process-wide one-shot initializer (setup_logging).                      *)
(*                                                                         *)
(* Six specifications share the state:                                     *)
(*   SpecInit     setup_logging called sequentially, one whole call a step *)
(*   SpecThreads  setup_logging called from several threads, one           *)
(*                statement a step (the code takes no lock)                *)
(*   SpecFacade   leveled emission and update_prefix on one facade         *)
(*   SpecBeacon   log_start / log_end on one facade against a wall clock   *)
(*   SpecFactory  PrefixedLogger(..) and get_prefixed_logger(..) creating   *)
(*                facades in one process                                   *)
(*   SpecTimers   two facades, each with its own timer map                 *)
(***************************************************************************)
EXTENDS Integers, Sequences, FiniteSets, TLC

VARIABLES
    logging_configured,   \* logger.py:34   module flag _logging_configured
    gcloud_available,     \* logger.py:15-29 _GOOGLE_CLOUD_LOGGING_AVAILABLE
    logging_file_path,    \* logger.py:31   LOGGING_FILE_PATH (from the environment)
    root_handlers,        \* handlers installed on the root logger by basicConfig
    installs,             \* how many times basicConfig has replaced the handlers
    ncalls,               \* history: how many setup_logging calls were made
    first_call,           \* history: the first setup_logging call and its outcome
    last_call,            \* history: the latest setup_logging call and its outcome
    pc,                   \* per thread: the statement of setup_logging it is at
    t_args,               \* per thread: the arguments of its call
    t_handlers,           \* per thread: the local list `handlers`
    saw_configured,       \* per thread: what the test at line 124 read
    prefix,               \* PrefixedLogger._prefix
    start_times,          \* PrefixedLogger._start_times
    clock,                \* time.time(), in eighths of a second
    records,              \* the records forwarded to the underlying channel
    prefix_arg,           \* history: the argument of the latest constructor / update_prefix
    stamps,               \* history: for each record, prefix_arg when it was emitted
    start_calls,          \* history: per key, the clock at each log_start since the last log_end
    last_op,              \* history: the facade call made last
    facades,              \* the PrefixedLogger objects constructed, in order
    made_by,              \* history: for each facade, "direct" or "factory"
    last_factory,         \* history: the latest get_prefixed_logger call
    timer_hist,           \* history: per facade and key, the latest beacon call
    last_inst,            \* history: the facade the latest call was made on
    emitted               \* SpecTimers: the records the latest call forwarded

initVars   == <<logging_configured, gcloud_available, logging_file_path,
                root_handlers, installs, ncalls, first_call, last_call>>
threadVars == <<pc, t_args, t_handlers, saw_configured>>
facadeVars == <<prefix, start_times, clock, records, prefix_arg, stamps,
                start_calls, last_op>>
objVars    == <<facades, made_by, last_factory, timer_hist, last_inst, emitted>>
vars       == <<initVars, threadVars, facadeVars, objVars>>

-----------------------------------------------------------------------------
(* Bounds                                                                  *)

MaxCalls   == 3      \* setup_logging calls in one sequential behaviour
NumThreads == 2      \* threads that call setup_logging concurrently
MaxRecords == 3      \* records forwarded to the channel in one behaviour
MaxClock   == 2      \* largest clock reading, in eighths of a second
MaxFacades == 2      \* PrefixedLogger objects in one behaviour

Threads == 1..NumThreads

-----------------------------------------------------------------------------
(* Python values                                                           *)

None   == "<None>"        \* Python's None where a string is expected
Truthy(s) == s # None /\ s # ""

MiB == 1024 * 1024

-----------------------------------------------------------------------------
(* setup_logging: the sinks                                                *)

StreamHandler == [kind |-> "StreamHandler"]

CloudLoggingHandler(name) == [kind |-> "CloudLoggingHandler", name |-> name]

RotatingFileHandler(path, maxBytes, backupCount) ==
    [kind |-> "RotatingFileHandler", baseFilename |-> path,
     maxBytes |-> maxBytes, backupCount |-> backupCount]

\* The keyword parameters of setup_logging.  Python binds a call's keywords
\* against them before the body runs; any other keyword is a TypeError.
SignatureParams == {"logger_name", "cloud_logger_name", "enable_gcloud_logging"}

FileKeywords == {"log_file_path", "log_file_max_bytes", "log_file_backup_count"}

AcceptsKeywords(args) == args.passed \subseteq SignatureParams

\* Line 128: the list starts with the console sink.
NewHandlers == <<StreamHandler>>

\* Lines 130-147: the cloud sink is appended when it was asked for, the
\* library was imported, and its construction did not throw.
CloudStep(handlers, args, available, cloud_ok) ==
    IF args.enable_gcloud_logging /\ available /\ cloud_ok
    THEN Append(handlers,
                CloudLoggingHandler(IF Truthy(args.cloud_logger_name)
                                    THEN args.cloud_logger_name
                                    ELSE args.logger_name))
    ELSE handlers

\* A failed file sink takes the sinks assembled so far with it.
FileStep_Fatal(handlers, env_path, file_ok) ==
    IF file_ok
    THEN Append(handlers, RotatingFileHandler(env_path, 1024 * 1024 * 100, 5))
    ELSE <<>>

\* Lines 149-159: the rotating file sink, always attempted, on the module's
\* LOGGING_FILE_PATH, 100MB, 5 backups; omitted when construction throws.
FileStep(handlers, env_path, file_ok) ==
    IF file_ok
    THEN Append(handlers, RotatingFileHandler(env_path, 1024 * 1024 * 100, 5))
    ELSE handlers

AssembleHandlers(args, available, env_path, cloud_ok, file_ok) ==
    FileStep(CloudStep(NewHandlers, args, available, cloud_ok), env_path, file_ok)

\* The calls the model makes.  `passed` holds the keywords the caller wrote
\* that are not plain positional use of the three parameters.
Args(name, cloud, enable, passed, path, maxBytes, backupCount) ==
    [logger_name |-> name, cloud_logger_name |-> cloud,
     enable_gcloud_logging |-> enable, passed |-> passed,
     log_file_path |-> path, log_file_max_bytes |-> maxBytes,
     log_file_backup_count |-> backupCount]

CallInputs ==
    { Args(n, c, e, {}, None, 0, 0) :
        n \in {"app", "other"}, c \in {None, "cloud"}, e \in BOOLEAN }
    \cup
    { Args("app", None, FALSE, {"log_file_path"}, p, 0, 0) :
        p \in {None, "", "a.log", "b.log"} }
    \cup
    { Args("app", None, FALSE, FileKeywords, p, 5 * MiB, 3) :
        p \in {"a.log", "b.log"} }

NoArgs == Args("", None, FALSE, {}, None, 0, 0)

NoCall == [args |-> NoArgs, outcome |-> "none", ran_body |-> FALSE,
           cloud_ok |-> FALSE, file_ok |-> FALSE]

\* The test left out: every call configures again.
AlreadyConfigured_Never(flag) == FALSE

\* Lines 123-126: the one-shot test of the module flag.
AlreadyConfigured(flag) == flag

-----------------------------------------------------------------------------
(* PrefixedLogger                                                          *)

PrefixInputs == {None, "", "svc"}
Messages     == {"msg"}
Keys         == {"k1", "k2"}
Clocks       == 0..MaxClock

\* Lines 42 and 51: prefix or "no-prefix".
OrNoPrefix(p) == IF Truthy(p) THEN p ELSE "no-prefix"

\* The separating space forgotten.
FormatMessage_NoSpace(p, message) == "[" \o p \o "]" \o message

\* Lines 45-47: _format_message.
FormatMessage(p, message) == "[" \o p \o "] " \o message

\* What logging.Logger.<method>(text) hands to the channel.  Logger.exception
\* is Logger.error with exc_info=True.
Record(level, text, exc_info) == [level |-> level, msg |-> text, exc_info |-> exc_info]

\* Line 85.
BeaconStart(key, message) == "(BEACON - [" \o key \o "] - START) " \o message

\* Line 98.
EndWarning(key) ==
    "log_end called for key '" \o key \o "' without a corresponding log_start."

\* A zero elapsed time in place of the token.
BeaconEndNA_Zero(key, message) ==
    "(BEACON - [" \o key \o "] - END (Elapsed time 0.00 s)) " \o message

\* Line 100.
BeaconEndNA(key, message) ==
    "(BEACON - [" \o key \o "] - END (Elapsed time N/A s)) " \o message

\* The format spec .2f on an elapsed time of e eighths of a second: every
\* such value is an exact binary fraction, so the rounding to hundredths is
\* exact round-half-to-even, sign kept.
Abs(n) == IF n < 0 THEN -n ELSE n

\* Ties rounded away from zero.
Hundredths_HalfUp(e) ==
    LET thousandths == Abs(e) * 125
    IN  (thousandths + 5) \div 10

Hundredths(e) ==
    LET thousandths == Abs(e) * 125
        q == thousandths \div 10
        r == thousandths % 10
    IN  IF r > 5 \/ (r = 5 /\ q % 2 = 1) THEN q + 1 ELSE q

TwoDigits(n) == IF n < 10 THEN "0" \o ToString(n) ELSE ToString(n)

Format2f(e) ==
    (IF e < 0 THEN "-" ELSE "")
        \o ToString(Hundredths(e) \div 100) \o "." \o TwoDigits(Hundredths(e) % 100)

\* Lines 102-103 (the trailing space is in the source).
BeaconEnd(key, start_time, now, message) ==
    "(BEACON - [" \o key \o "] - END (Elapsed time " \o Format2f(now - start_time)
        \o " s)) " \o message \o " "

\* setdefault in place of assignment: a running timer is kept.
StartTimer_FirstWins(timers, key, now) ==
    [k \in DOMAIN timers \cup {key} |-> IF k \in DOMAIN timers THEN timers[k] ELSE now]

\* Line 84: self._start_times[key] = time.time().
StartTimer(timers, key, now) ==
    [k \in DOMAIN timers \cup {key} |-> IF k = key THEN now ELSE timers[k]]

\* Line 95: self._start_times.pop(key, None): the map that is left.
PopTimer(timers, key) == [k \in DOMAIN timers \ {key} |-> timers[k]]

\* Line 96: the test that decides between the two branches of log_end.
NoTimer(timers, key) == key \notin DOMAIN timers

NoTimers == [k \in {} |-> 0]

\* A history entry: the call, its arguments, and for log_end the clock
\* readings of the log_start calls it closes.
Op(op, key, message, arg, starts) ==
    [op |-> op, key |-> key, message |-> message, arg |-> arg, starts |-> starts]

-----------------------------------------------------------------------------
(* Initial state                                                           *)

InitLogging ==
    /\ logging_configured = FALSE
    /\ gcloud_available \in BOOLEAN
    /\ logging_file_path \in {"logs.txt", "env.log"}
    /\ root_handlers = <<>>
    /\ installs = 0
    /\ ncalls = 0
    /\ first_call = NoCall
    /\ last_call = NoCall

InitThreads ==
    /\ pc = [t \in Threads |-> "idle"]
    /\ t_args = [t \in Threads |-> NoArgs]
    /\ t_handlers = [t \in Threads |-> <<>>]
    /\ saw_configured = [t \in Threads |-> FALSE]

\* Lines 40-43: the object PrefixedLogger(logger_name, prefix) builds.
NewFacade(logger_name, p) ==
    [logger |-> logger_name, prefix |-> OrNoPrefix(p), start_times |-> NoTimers]

NoFactoryCall ==
    [outcome |-> "none", logger_name |-> "", prefix |-> None, args |-> NoArgs,
     configured_before |-> FALSE, init_calls |-> 0, init_call |-> NoCall,
     facade |-> NewFacade("", None)]

\* No facade object yet.
InitObjects ==
    /\ facades = <<>>
    /\ made_by = <<>>
    /\ last_factory = NoFactoryCall
    /\ timer_hist = <<>>
    /\ last_inst = 0
    /\ emitted = <<>>

\* Lines 40-43: PrefixedLogger(logger_name, prefix).
InitFacade(p) ==
    /\ prefix = OrNoPrefix(p)
    /\ start_times = NoTimers
    /\ records = <<>>
    /\ prefix_arg = p
    /\ stamps = <<>>
    /\ start_calls = [k \in Keys |-> <<>>]
    /\ last_op = Op("__init__", "", "", p, <<>>)

-----------------------------------------------------------------------------
(* SpecInit: setup_logging, one whole call a step                          *)

CallEntry(args, outcome, ran_body, cloud_ok, file_ok) ==
    [args |-> args, outcome |-> outcome, ran_body |-> ran_body,
     cloud_ok |-> cloud_ok, file_ok |-> file_ok]

\* The history variables after a call that ended as `entry`.
Logged(entry) ==
    /\ ncalls' = ncalls + 1
    /\ first_call' = IF ncalls = 0 THEN entry ELSE first_call
    /\ last_call' = entry

\* setup_logging(**args).  cloud_ok / file_ok: whether, at the time of this
\* call, constructing the cloud client+handler and the rotating file handler
\* succeeds; the history keeps them for every call, run or not.
SetupLoggingCall(args, cloud_ok, file_ok) ==
    /\ IF ~AcceptsKeywords(args)
       THEN \* TypeError: unexpected keyword argument; the body never runs
            /\ Logged(CallEntry(args, "TypeError", FALSE, cloud_ok, file_ok))
            /\ UNCHANGED <<logging_configured, root_handlers, installs>>
       ELSE IF AlreadyConfigured(logging_configured)
       THEN /\ Logged(CallEntry(args, "returned", FALSE, cloud_ok, file_ok))
            /\ UNCHANGED <<logging_configured, root_handlers, installs>>
       ELSE /\ root_handlers' = AssembleHandlers(args, gcloud_available,
                                    logging_file_path, cloud_ok, file_ok)
            /\ installs' = installs + 1
            /\ logging_configured' = TRUE
            /\ Logged(CallEntry(args, "returned", TRUE, cloud_ok, file_ok))
    /\ UNCHANGED <<gcloud_available, logging_file_path>>

SetupLogging(args, cloud_ok, file_ok) ==
    /\ ncalls < MaxCalls
    /\ SetupLoggingCall(args, cloud_ok, file_ok)
    /\ UNCHANGED <<threadVars, facadeVars, objVars>>

NextInit ==
    \E args \in CallInputs, cloud_ok \in BOOLEAN, file_ok \in BOOLEAN :
        SetupLogging(args, cloud_ok, file_ok)

-----------------------------------------------------------------------------
(* SpecThreads: setup_logging, one statement a step, no lock               *)

\* The call: keywords are bound (TypeError ends the call at once).
TCall(t, args) ==
    /\ pc[t] = "idle"
    /\ t_args' = [t_args EXCEPT ![t] = args]
    /\ pc' = [pc EXCEPT ![t] = IF AcceptsKeywords(args) THEN "check" ELSE "raised"]
    /\ UNCHANGED <<initVars, t_handlers, saw_configured, facadeVars, objVars>>

\* Lines 124-128: read the flag; return, or start the handler list.
TCheck(t) ==
    /\ pc[t] = "check"
    /\ saw_configured' = [saw_configured EXCEPT ![t] = AlreadyConfigured(logging_configured)]
    /\ IF AlreadyConfigured(logging_configured)
       THEN /\ pc' = [pc EXCEPT ![t] = "done"]
            /\ UNCHANGED t_handlers
       ELSE /\ pc' = [pc EXCEPT ![t] = "cloud"]
            /\ t_handlers' = [t_handlers EXCEPT ![t] = NewHandlers]
    /\ UNCHANGED <<initVars, t_args, facadeVars, objVars>>

\* Lines 130-147.
TCloud(t, cloud_ok) ==
    /\ pc[t] = "cloud"
    /\ t_handlers' = [t_handlers EXCEPT ![t] =
            CloudStep(t_handlers[t], t_args[t], gcloud_available, cloud_ok)]
    /\ pc' = [pc EXCEPT ![t] = "file"]
    /\ UNCHANGED <<initVars, t_args, saw_configured, facadeVars, objVars>>

\* Lines 149-159.
TFile(t, file_ok) ==
    /\ pc[t] = "file"
    /\ t_handlers' = [t_handlers EXCEPT ![t] =
            FileStep(t_handlers[t], logging_file_path, file_ok)]
    /\ pc' = [pc EXCEPT ![t] = "apply"]
    /\ UNCHANGED <<initVars, t_args, saw_configured, facadeVars, objVars>>

\* Lines 162-167: basicConfig(force=True) replaces the root handlers.
TApply(t) ==
    /\ pc[t] = "apply"
    /\ root_handlers' = t_handlers[t]
    /\ installs' = installs + 1
    /\ pc' = [pc EXCEPT ![t] = "setflag"]
    /\ UNCHANGED <<logging_configured, gcloud_available, logging_file_path,
                   ncalls, first_call, last_call,
                   t_args, t_handlers, saw_configured, facadeVars, objVars>>

\* Lines 170-172.
TSetFlag(t) ==
    /\ pc[t] = "setflag"
    /\ logging_configured' = TRUE
    /\ pc' = [pc EXCEPT ![t] = "done"]
    /\ UNCHANGED <<gcloud_available, logging_file_path, root_handlers, installs,
                   ncalls, first_call, last_call,
                   t_args, t_handlers, saw_configured, facadeVars, objVars>>

NextThreads ==
    \E t \in Threads :
        \/ \E args \in CallInputs : TCall(t, args)
        \/ TCheck(t)
        \/ \E cloud_ok \in BOOLEAN : TCloud(t, cloud_ok)
        \/ \E file_ok \in BOOLEAN : TFile(t, file_ok)
        \/ TApply(t)
        \/ TSetFlag(t)

-----------------------------------------------------------------------------
(* SpecFacade: leveled emission and update_prefix                          *)

\* self.logger.<method>(self._format_message(message)): one record.
Emit(op, level, exc_info, message) ==
    /\ Len(records) < MaxRecords
    /\ records' = Append(records, Record(level, FormatMessage(prefix, message), exc_info))
    /\ stamps' = Append(stamps, prefix_arg)
    /\ last_op' = Op(op, "", message, "", <<>>)
    /\ UNCHANGED <<prefix, start_times, clock, prefix_arg, start_calls>>
    /\ UNCHANGED <<initVars, threadVars, objVars>>

Info(message)      == Emit("info", "INFO", FALSE, message)
Debug(message)     == Emit("debug", "DEBUG", FALSE, message)
Warning(message)   == Emit("warning", "WARNING", FALSE, message)
Error(message)     == Emit("error", "ERROR", FALSE, message)
Critical(message)  == Emit("critical", "CRITICAL", FALSE, message)
Exception(message) == Emit("exception", "ERROR", TRUE, message)

\* The new prefix is dropped.
UpdatePrefix_Ignored(p) ==
    /\ prefix' = prefix
    /\ prefix_arg' = p
    /\ last_op' = Op("update_prefix", "", "", p, <<>>)
    /\ UNCHANGED <<start_times, clock, records, stamps, start_calls>>
    /\ UNCHANGED <<initVars, threadVars, objVars>>

\* Lines 49-51.
UpdatePrefix(p) ==
    /\ prefix' = OrNoPrefix(p)
    /\ prefix_arg' = p
    /\ last_op' = Op("update_prefix", "", "", p, <<>>)
    /\ UNCHANGED <<start_times, clock, records, stamps, start_calls>>
    /\ UNCHANGED <<initVars, threadVars, objVars>>

NextFacade ==
    \/ \E m \in Messages : Info(m)
    \/ \E m \in Messages : Debug(m)
    \/ \E m \in Messages : Warning(m)
    \/ \E m \in Messages : Error(m)
    \/ \E m \in Messages : Critical(m)
    \/ \E m \in Messages : Exception(m)
    \/ \E p \in PrefixInputs : UpdatePrefix(p)

-----------------------------------------------------------------------------
(* SpecBeacon: log_start / log_end against the wall clock                  *)

\* time.time() is the wall clock: between two calls it may read anything.
Tick(now) ==
    /\ now # clock
    /\ clock' = now
    /\ last_op' = Op("time", "", "", "", <<>>)
    /\ UNCHANGED <<prefix, start_times, records, prefix_arg, stamps, start_calls>>
    /\ UNCHANGED <<initVars, threadVars, objVars>>

\* Lines 77-86.
LogStart(key, message) ==
    /\ Len(records) < MaxRecords
    /\ start_times' = StartTimer(start_times, key, clock)
    /\ records' = Append(records,
            Record("INFO", FormatMessage(prefix, BeaconStart(key, message)), FALSE))
    /\ stamps' = Append(stamps, prefix_arg)
    /\ start_calls' = [start_calls EXCEPT ![key] = Append(@, clock)]
    /\ last_op' = Op("log_start", key, message, "", <<>>)
    /\ UNCHANGED <<prefix, clock, prefix_arg>>
    /\ UNCHANGED <<initVars, threadVars, objVars>>

\* Lines 88-104.
LogEnd(key, message) ==
    /\ Len(records) + (IF NoTimer(start_times, key) THEN 2 ELSE 1) <= MaxRecords
    /\ start_times' = PopTimer(start_times, key)
    /\ IF NoTimer(start_times, key)
       THEN /\ records' = records \o
                    << Record("WARNING", FormatMessage(prefix, EndWarning(key)), FALSE),
                       Record("INFO", FormatMessage(prefix, BeaconEndNA(key, message)), FALSE) >>
            /\ stamps' = stamps \o <<prefix_arg, prefix_arg>>
       ELSE /\ records' = Append(records,
                    Record("INFO",
                           FormatMessage(prefix,
                               BeaconEnd(key, start_times[key], clock, message)),
                           FALSE))
            /\ stamps' = Append(stamps, prefix_arg)
    /\ start_calls' = [start_calls EXCEPT ![key] = <<>>]
    /\ last_op' = Op("log_end", key, message, "", start_calls[key])
    /\ UNCHANGED <<prefix, clock, prefix_arg>>
    /\ UNCHANGED <<initVars, threadVars, objVars>>

NextBeacon ==
    \/ \E now \in Clocks : Tick(now)
    \/ \E k \in Keys, m \in Messages : LogStart(k, m)
    \/ \E k \in Keys, m \in Messages : LogEnd(k, m)

-----------------------------------------------------------------------------
(* SpecFactory: constructing facades, directly and through the factory     *)

LoggerNames == {"app", "other"}

\* The constructor also calls setup_logging, cloud logging off.
Construct_Initializes(logger_name, p) ==
    /\ Len(facades) < MaxFacades
    /\ \E cloud_ok \in BOOLEAN, file_ok \in BOOLEAN :
          SetupLoggingCall(Args(logger_name, None, FALSE, {}, None, 0, 0),
                           cloud_ok, file_ok)
    /\ facades' = Append(facades, NewFacade(logger_name, p))
    /\ made_by' = Append(made_by, "direct")
    /\ timer_hist' = Append(timer_hist, [k \in Keys |-> "none"])
    /\ UNCHANGED <<last_factory, last_inst, emitted>>
    /\ UNCHANGED <<threadVars, facadeVars>>

\* Lines 40-43: PrefixedLogger(logger_name, prefix), called by the user.
\* logging.getLogger only looks the channel up.
Construct(logger_name, p) ==
    /\ Len(facades) < MaxFacades
    /\ facades' = Append(facades, NewFacade(logger_name, p))
    /\ made_by' = Append(made_by, "direct")
    /\ timer_hist' = Append(timer_hist, [k \in Keys |-> "none"])
    /\ UNCHANGED <<last_factory, last_inst, emitted>>
    /\ UNCHANGED <<initVars, threadVars, facadeVars>>

\* The keyword parameters of get_prefixed_logger (lines 175-177).
FactoryParams ==
    {"logger_name", "prefix", "cloud_logger_name", "enable_gcloud_logging"}

FactoryAccepts(args) == args.passed \subseteq FactoryParams

\* Lines 192-194: what the factory hands to setup_logging.
FactorySetupArgs(args) ==
    Args(args.logger_name, args.cloud_logger_name, args.enable_gcloud_logging,
         {}, None, 0, 0)

FactoryEntry(outcome, p, args, init_calls, init_call, facade) ==
    [outcome |-> outcome, logger_name |-> args.logger_name, prefix |-> p,
     args |-> args, configured_before |-> logging_configured,
     init_calls |-> init_calls, init_call |-> init_call, facade |-> facade]

\* Lines 175-195: get_prefixed_logger(logger_name, prefix, ..), the file
\* keywords of the call, if any, kept in args.
GetPrefixedLogger(p, args, cloud_ok, file_ok) ==
    /\ Len(facades) < MaxFacades
    /\ IF ~FactoryAccepts(args)
       THEN \* TypeError: unexpected keyword argument; the body never runs
            /\ last_factory' = FactoryEntry("TypeError", p, args, 0, NoCall,
                                            NewFacade("", None))
            /\ UNCHANGED <<initVars, facades, made_by, timer_hist>>
       ELSE /\ SetupLoggingCall(FactorySetupArgs(args), cloud_ok, file_ok)
            /\ facades' = Append(facades, NewFacade(args.logger_name, p))
            /\ made_by' = Append(made_by, "factory")
            /\ timer_hist' = Append(timer_hist, [k \in Keys |-> "none"])
            /\ last_factory' = FactoryEntry("returned", p, args, ncalls' - ncalls,
                                            last_call', facades'[Len(facades')])
    /\ UNCHANGED <<last_inst, emitted>>
    /\ UNCHANGED <<threadVars, facadeVars>>

\* The factory calls the model makes: plain ones, one that asks for the
\* cloud sink, and two that pass the file keywords.
FactoryInputs ==
    { Args(n, None, FALSE, {}, None, 0, 0) : n \in LoggerNames }
    \cup
    { Args("app", "cloud", TRUE, {}, None, 0, 0),
      Args("app", None, FALSE, {"log_file_path"}, None, 0, 0),
      Args("app", None, FALSE, FileKeywords, "a.log", 5 * MiB, 3) }

NextFactory ==
    \/ \E n \in LoggerNames, p \in PrefixInputs : Construct(n, p)
    \/ \E p \in {None, "svc"}, args \in FactoryInputs,
          cloud_ok \in BOOLEAN, file_ok \in BOOLEAN :
            GetPrefixedLogger(p, args, cloud_ok, file_ok)

-----------------------------------------------------------------------------
(* SpecTimers: two facades, each with its own timer map.  The records of   *)
(* the latest call are kept in `emitted`; the history `records` is not.    *)
(* The clock is read at its Init value and does not advance here: whether  *)
(* a key is in a timer map does not depend on the readings stored, and     *)
(* SpecBeacon covers the elapsed times.                                    *)

Instances == {1, 2}

\* One map for all facades (a class attribute in place of line 43).
Timers_Shared(fs, i) == fs[1].start_times

\* Line 43: self._start_times, the map of facade i.
Timers(fs, i) == fs[i].start_times

\* The state the calls on facades leave alone.
FacadeFrame ==
    /\ UNCHANGED <<prefix, start_times, clock, records, prefix_arg, stamps, start_calls>>
    /\ UNCHANGED <<made_by, last_factory>>
    /\ UNCHANGED <<initVars, threadVars>>

\* Lines 53-75 on facade i.
FEmit(i, op, level, exc_info, message) ==
    /\ emitted' = << Record(level, FormatMessage(facades[i].prefix, message), exc_info) >>
    /\ last_op' = Op(op, "", message, "", <<>>)
    /\ last_inst' = i
    /\ UNCHANGED <<facades, timer_hist>>
    /\ FacadeFrame

FInfo(i, message)      == FEmit(i, "info", "INFO", FALSE, message)
FDebug(i, message)     == FEmit(i, "debug", "DEBUG", FALSE, message)
FWarning(i, message)   == FEmit(i, "warning", "WARNING", FALSE, message)
FError(i, message)     == FEmit(i, "error", "ERROR", FALSE, message)
FCritical(i, message)  == FEmit(i, "critical", "CRITICAL", FALSE, message)
FException(i, message) == FEmit(i, "exception", "ERROR", TRUE, message)

\* Lines 49-51 on facade i.
FUpdatePrefix(i, p) ==
    /\ facades' = [facades EXCEPT ![i].prefix = OrNoPrefix(p)]
    /\ emitted' = <<>>
    /\ last_op' = Op("update_prefix", "", "", p, <<>>)
    /\ last_inst' = i
    /\ UNCHANGED timer_hist
    /\ FacadeFrame

\* Lines 77-86 on facade i.
FLogStart(i, key, message) ==
    /\ facades' = [facades EXCEPT ![i].start_times =
                        StartTimer(Timers(facades, i), key, clock)]
    /\ emitted' = << Record("INFO",
                        FormatMessage(facades[i].prefix, BeaconStart(key, message)),
                        FALSE) >>
    /\ timer_hist' = [timer_hist EXCEPT ![i][key] = "log_start"]
    /\ last_op' = Op("log_start", key, message, "", <<>>)
    /\ last_inst' = i
    /\ FacadeFrame

\* Lines 88-104 on facade i.
FLogEnd(i, key, message) ==
    /\ facades' = [facades EXCEPT ![i].start_times =
                        PopTimer(Timers(facades, i), key)]
    /\ emitted' =
          IF NoTimer(Timers(facades, i), key)
          THEN << Record("WARNING",
                         FormatMessage(facades[i].prefix, EndWarning(key)), FALSE),
                  Record("INFO",
                         FormatMessage(facades[i].prefix, BeaconEndNA(key, message)),
                         FALSE) >>
          ELSE << Record("INFO",
                         FormatMessage(facades[i].prefix,
                             BeaconEnd(key, Timers(facades, i)[key], clock, message)),
                         FALSE) >>
    /\ timer_hist' = [timer_hist EXCEPT ![i][key] = "log_end"]
    /\ last_op' = Op("log_end", key, message, "", <<>>)
    /\ last_inst' = i
    /\ FacadeFrame

NextTimers ==
    \E i \in Instances :
          \/ \E m \in Messages : FInfo(i, m)
          \/ \E m \in Messages : FDebug(i, m)
          \/ \E m \in Messages : FWarning(i, m)
          \/ \E m \in Messages : FError(i, m)
          \/ \E m \in Messages : FCritical(i, m)
          \/ \E m \in Messages : FException(i, m)
          \/ \E p \in PrefixInputs : FUpdatePrefix(i, p)
          \/ \E k \in Keys, m \in Messages : FLogStart(i, k, m)
          \/ \E k \in Keys, m \in Messages : FLogEnd(i, k, m)

\* Two facades constructed directly (lines 40-43), on the same or on
\* different channels.
InitTimers ==
    /\ \E names \in [Instances -> LoggerNames], ps \in [Instances -> {None, "svc"}] :
          facades = [i \in Instances |-> NewFacade(names[i], ps[i])]
    /\ made_by = [i \in Instances |-> "direct"]
    /\ last_factory = NoFactoryCall
    /\ timer_hist = [i \in Instances |-> [k \in Keys |-> "none"]]
    /\ last_inst = 0
    /\ emitted = <<>>

-----------------------------------------------------------------------------
(* The specifications                                                      *)

IdleLogging ==
    /\ logging_configured = FALSE
    /\ gcloud_available = FALSE
    /\ logging_file_path = "logs.txt"
    /\ root_handlers = <<>>
    /\ installs = 0
    /\ ncalls = 0
    /\ first_call = NoCall
    /\ last_call = NoCall

Init        == InitLogging /\ InitThreads /\ InitFacade(None) /\ clock = 0
                   /\ InitObjects
InitFacades == IdleLogging /\ InitThreads /\ clock = 0 /\ InitObjects
                   /\ \E p \in PrefixInputs : InitFacade(p)
InitBeacon  == IdleLogging /\ InitThreads /\ clock \in Clocks /\ InitObjects
                   /\ \E p \in PrefixInputs : InitFacade(p)

InitPair    == IdleLogging /\ InitThreads /\ InitFacade(None) /\ clock \in Clocks
                   /\ InitTimers

SpecInit    == Init /\ [][NextInit]_vars
SpecThreads == Init /\ [][NextThreads]_vars
SpecFacade  == InitFacades /\ [][NextFacade]_vars
SpecBeacon  == InitBeacon /\ [][NextBeacon]_vars
SpecFactory == Init /\ [][NextFactory]_vars
SpecTimers  == InitPair /\ [][NextTimers]_vars

-----------------------------------------------------------------------------
(* Properties of setup_logging                                             *)

Kinds(handlers) == { handlers[i].kind : i \in 1..Len(handlers) }

\* C1: once a call to setup_logging has completed and set the configured
\* flag, every later call, whatever its arguments, leaves the installed
\* handlers, their number of installations and the flag as they were.
C1_ConfiguredOnce ==
    [][ logging_configured =>
            /\ logging_configured'
            /\ root_handlers' = root_handlers
            /\ installs' = installs ]_vars

\* A second call with another logger name and another cloud flag was made
\* after the first one configured logging.
C1_Witness ==
    /\ ncalls >= 2
    /\ first_call.ran_body
    /\ ~last_call.ran_body
    /\ last_call.args.logger_name # first_call.args.logger_name
    /\ last_call.args.enable_gcloud_logging # first_call.args.enable_gcloud_logging

\* C2: when several threads call setup_logging while the flag is false,
\* exactly one of them installs handlers: basicConfig is applied at most
\* once and at most one thread gets past the test of the flag.
C2_SingleInstall ==
    /\ installs <= 1
    /\ Cardinality({ t \in Threads : pc[t] \in {"cloud", "file", "apply", "setflag"} }) <= 1

\* C8: whatever fails among the optional sinks, the first call returns
\* normally, the flag is set, and the installed handlers are the console
\* sink plus exactly the optional sinks that were constructed.
C8_Constructed(call) ==
    {"StreamHandler"}
        \cup (IF call.args.enable_gcloud_logging /\ gcloud_available /\ call.cloud_ok
              THEN {"CloudLoggingHandler"} ELSE {})
        \cup (IF call.file_ok THEN {"RotatingFileHandler"} ELSE {})

C8_SinkFailureNotFatal ==
    (ncalls >= 1 /\ AcceptsKeywords(first_call.args)) =>
        /\ first_call.outcome = "returned"
        /\ logging_configured
        /\ Kinds(root_handlers) = C8_Constructed(first_call)
        /\ Len(root_handlers) = Cardinality(C8_Constructed(first_call))

\* The first call asked for the cloud sink with the library present, and
\* both the cloud and the file constructor failed.
C8_Witness ==
    /\ ncalls >= 1
    /\ first_call.ran_body
    /\ first_call.args.enable_gcloud_logging
    /\ gcloud_available
    /\ ~first_call.cloud_ok
    /\ ~first_call.file_ok
    /\ root_handlers = <<StreamHandler>>

\* C9: after the first call the handlers contain a rotating file sink if
\* and only if that call configured a non-empty file path (and the sink
\* could be constructed); with the path unset or None, the console sink is
\* installed and no file sink.
C9_PathConfigured(args) ==
    "log_file_path" \in args.passed /\ Truthy(args.log_file_path)

C9_FileSinkIffPath ==
    ncalls >= 1 =>
        /\ ("RotatingFileHandler" \in Kinds(root_handlers))
                <=> (C9_PathConfigured(first_call.args) /\ first_call.file_ok)
        /\ ~C9_PathConfigured(first_call.args) =>
                "StreamHandler" \in Kinds(root_handlers)

\* C10: the file sink installed by the first call is on the path, size
\* limit and backup count that call supplied (100 MiB and 5 when omitted),
\* and stays so after later calls.
C10_Supplied(args) ==
    RotatingFileHandler(
        args.log_file_path,
        IF "log_file_max_bytes" \in args.passed
            THEN args.log_file_max_bytes ELSE 100 * MiB,
        IF "log_file_backup_count" \in args.passed
            THEN args.log_file_backup_count ELSE 5)

C10_FileSinkAsSupplied ==
    (ncalls >= 1 /\ C9_PathConfigured(first_call.args) /\ first_call.file_ok) =>
        \E i \in 1..Len(root_handlers) : root_handlers[i] = C10_Supplied(first_call.args)

-----------------------------------------------------------------------------
(* Properties of PrefixedLogger                                            *)

LeveledOps == {"debug", "info", "warning", "error", "critical", "exception"}

Severity(op) ==
    CASE op = "debug"     -> "DEBUG"
      [] op = "info"      -> "INFO"
      [] op = "warning"   -> "WARNING"
      [] op = "error"     -> "ERROR"
      [] op = "critical"  -> "CRITICAL"
      [] op = "exception" -> "ERROR"

Sentinel(arg) == IF arg = None \/ arg = "" THEN "no-prefix" ELSE arg

\* C3: each of debug, info, warning, error, critical and exception forwards
\* exactly one record, at its severity, with text "[P] M" for the current
\* prefix P; P is "no-prefix" when the facade was constructed with, or last
\* updated to, an empty or unset prefix.
C3_PrefixedEmission ==
    /\ [][ last_op'.op \in LeveledOps =>
              /\ Len(records') = Len(records) + 1
              /\ SubSeq(records', 1, Len(records)) = records
              /\ records'[Len(records')].level = Severity(last_op'.op)
              /\ records'[Len(records')].exc_info = (last_op'.op = "exception")
              /\ records'[Len(records')].msg
                     = "[" \o Sentinel(prefix_arg) \o "] " \o last_op'.message ]_vars
    /\ [](~Truthy(prefix_arg) => prefix = "no-prefix")

\* exception() was called on a facade whose prefix was last set to "".
C3_Witness ==
    /\ last_op.op = "exception"
    /\ prefix_arg = ""
    /\ Len(records) >= 2
    /\ records[Len(records)] = [level |-> "ERROR", msg |-> "[no-prefix] msg", exc_info |-> TRUE]

\* C7: update_prefix emits nothing and changes the prefix of later
\* emissions only: each record carries the prefix that was current when it
\* was emitted, and no step alters a record emitted before it.
C7_UpdateAffectsLaterOnly ==
    /\ [][ last_op'.op = "update_prefix" => records' = records ]_vars
    /\ [][ /\ Len(records') >= Len(records)
           /\ SubSeq(records', 1, Len(records)) = records ]_vars
    /\ [](/\ Len(stamps) = Len(records)
          /\ \A i \in 1..Len(records) :
                \E m \in Messages :
                    records[i].msg = "[" \o Sentinel(stamps[i]) \o "] " \o m)

\* Two records under different prefixes, an update_prefix between them.
C7_Witness ==
    /\ Len(records) >= 2
    /\ records[1].msg = "[svc] msg"
    /\ records[2].msg = "[no-prefix] msg"
    /\ stamps[1] = "svc"
    /\ stamps[2] # "svc"

\* The text of an elapsed time of e eighths of a second, two decimals.
TwoDecimals(e) ==
    CASE e =  0 -> "0.00"
      [] e =  1 -> "0.12"  [] e = -1 -> "-0.12"
      [] e =  2 -> "0.25"  [] e = -2 -> "-0.25"
      [] e =  3 -> "0.38"  [] e = -3 -> "-0.38"
      [] e =  4 -> "0.50"  [] e = -4 -> "-0.50"
      [] e =  5 -> "0.62"  [] e = -5 -> "-0.62"
      [] e =  6 -> "0.75"  [] e = -6 -> "-0.75"

\* C4: log_end(k, m) with no timer for k emits one WARNING naming k and
\* then one INFO END beacon whose elapsed time is the token N/A, and
\* leaves the timer map as it was.
C4_EndWithoutStart ==
    [][ (last_op'.op = "log_end" /\ last_op'.key \notin DOMAIN start_times) =>
          /\ records' = records \o
                << [level |-> "WARNING", exc_info |-> FALSE,
                    msg |-> "[" \o prefix \o "] log_end called for key '"
                            \o last_op'.key \o "' without a corresponding log_start."],
                   [level |-> "INFO", exc_info |-> FALSE,
                    msg |-> "[" \o prefix \o "] (BEACON - [" \o last_op'.key
                            \o "] - END (Elapsed time N/A s)) " \o last_op'.message] >>
          /\ start_times' = start_times ]_vars

\* log_end("k2", ..) was called with no timer for k2 while k1 had one.
C4_Witness ==
    /\ last_op.op = "log_end"
    /\ last_op.key = "k2"
    /\ last_op.starts = <<>>
    /\ DOMAIN start_times = {"k1"}
    /\ records[Len(records) - 1].level = "WARNING"
    /\ records[Len(records)].level = "INFO"

\* C5: log_start(k, m1) emits one INFO record "[P] (BEACON - [k] - START) m1"
\* and stores the clock under k; a log_end(k, m2) that finds the timer emits
\* one INFO END record, no WARNING, whose elapsed time is the clock at
\* log_end minus the stored value, with two decimals (1000.0 to 1002.5
\* gives 2.50).
C5_StartThenEnd ==
    /\ [][ last_op'.op = "log_start" =>
              /\ records' = Append(records,
                    [level |-> "INFO", exc_info |-> FALSE,
                     msg |-> "[" \o prefix \o "] (BEACON - [" \o last_op'.key
                             \o "] - START) " \o last_op'.message])
              /\ DOMAIN start_times' = DOMAIN start_times \cup {last_op'.key}
              /\ start_times'[last_op'.key] = clock
              /\ \A k \in DOMAIN start_times \ {last_op'.key} :
                    start_times'[k] = start_times[k] ]_vars
    /\ [][ (last_op'.op = "log_end" /\ last_op'.key \in DOMAIN start_times) =>
              records' = Append(records,
                    [level |-> "INFO", exc_info |-> FALSE,
                     msg |-> "[" \o prefix \o "] (BEACON - [" \o last_op'.key
                             \o "] - END (Elapsed time "
                             \o TwoDecimals(clock - start_times[last_op'.key])
                             \o " s)) " \o last_op'.message \o " "]) ]_vars
    /\ [](Format2f(8020 - 8000) = "2.50")

\* log_start("k1") at clock 0, then log_end("k1") one eighth later.
C5_Witness ==
    /\ last_op.op = "log_end"
    /\ last_op.starts = <<0>>
    /\ clock = 1
    /\ Len(records) >= 2
    /\ records[Len(records) - 1].msg = "[svc] (BEACON - [k1] - START) msg"
    /\ records[Len(records)].msg = "[svc] (BEACON - [k1] - END (Elapsed time 0.12 s)) msg "

\* C6: when log_start(k) is called again before log_end(k), no call warns,
\* and the next log_end(k) reports the time since the latest log_start(k),
\* in one INFO record.
C6_LastStartWins ==
    /\ [][ last_op'.op = "log_start" =>
              /\ Len(records') = Len(records) + 1
              /\ records'[Len(records')].level = "INFO" ]_vars
    /\ [][ (last_op'.op = "log_end" /\ Len(last_op'.starts) >= 2) =>
              records' = Append(records,
                    [level |-> "INFO", exc_info |-> FALSE,
                     msg |-> "[" \o prefix \o "] (BEACON - [" \o last_op'.key
                             \o "] - END (Elapsed time "
                             \o TwoDecimals(clock - last_op'.starts[Len(last_op'.starts)])
                             \o " s)) " \o last_op'.message \o " "]) ]_vars

\* Two log_start("k1") at different clock readings, then log_end("k1").
C6_Witness ==
    /\ last_op.op = "log_end"
    /\ last_op.key = "k1"
    /\ last_op.starts = <<0, 1>>
    /\ clock = 2
    /\ records[Len(records)].msg = "[svc] (BEACON - [k1] - END (Elapsed time 0.12 s)) msg "

-----------------------------------------------------------------------------
(* Properties of construction                                              *)

DirectlyMade == { i \in 1..Len(facades) : made_by[i] = "direct" }

\* C11 as first stated: once a facade has been constructed directly, the
\* configured flag is true and the console sink is installed.
C11_ConstructorInitializes ==
    DirectlyMade # {} =>
        /\ logging_configured
        /\ "StreamHandler" \in Kinds(root_handlers)

\* C11: constructing a facade directly never runs the initializer: the
\* step leaves the configured flag, the installed handlers and the count of
\* initializer calls as they were, configured or not; while no factory call
\* has returned, the flag stays false and no sink is installed.
C11_ConstructorLeavesLogging ==
    /\ [][ (Len(made_by') > Len(made_by) /\ made_by'[Len(made_by')] = "direct") =>
              /\ logging_configured' = logging_configured
              /\ root_handlers' = root_handlers
              /\ installs' = installs
              /\ ncalls' = ncalls ]_vars
    /\ []((\A i \in 1..Len(facades) : made_by[i] = "direct") =>
              (~logging_configured /\ root_handlers = <<>>))

\* A facade was constructed directly in a process never initialized.
C11_Witness ==
    /\ Len(facades) >= 1
    /\ made_by[1] = "direct"
    /\ facades[1] = [logger |-> "app", prefix |-> "no-prefix", start_times |-> NoTimers]
    /\ ~logging_configured
    /\ root_handlers = <<>>
    /\ ncalls = 0

\* C12: every factory call invokes the initializer exactly once, with the
\* channel, cloud and file parameters of the call (cloud off, 100 MiB and 5
\* backups when omitted), and returns a facade on that channel and prefix;
\* the initializer call configures only when it is the first.
C12_FactoryPassesParameters ==
    last_factory.outcome # "none" =>
        /\ last_factory.outcome = "returned"
        /\ last_factory.init_calls = 1
        /\ last_factory.init_call.args.logger_name = last_factory.args.logger_name
        /\ last_factory.init_call.args.cloud_logger_name
                = last_factory.args.cloud_logger_name
        /\ last_factory.init_call.args.enable_gcloud_logging
                = last_factory.args.enable_gcloud_logging
        /\ "log_file_path" \in last_factory.args.passed =>
                /\ "log_file_path" \in last_factory.init_call.args.passed
                /\ last_factory.init_call.args.log_file_path
                        = last_factory.args.log_file_path
        /\ last_factory.init_call.args.log_file_max_bytes
                = (IF "log_file_max_bytes" \in last_factory.args.passed
                   THEN last_factory.args.log_file_max_bytes ELSE 100 * MiB)
        /\ last_factory.init_call.args.log_file_backup_count
                = (IF "log_file_backup_count" \in last_factory.args.passed
                   THEN last_factory.args.log_file_backup_count ELSE 5)
        /\ last_factory.facade
                = [logger |-> last_factory.logger_name,
                   prefix |-> Sentinel(last_factory.prefix),
                   start_times |-> NoTimers]
        /\ last_factory.init_call.ran_body = ~last_factory.configured_before

-----------------------------------------------------------------------------
(* Properties of the timer maps                                            *)

\* C13: on every facade, key k is in the timer map exactly when the latest
\* beacon call on k made on that facade was log_start; so a log_end(k) not
\* preceded on the same facade by an open log_start(k) warns and reports
\* N/A, whatever was started on another facade, even one on the same
\* channel; a beacon call touches the map of its own facade only, and
\* leveled emissions and update_prefix change no timer map.
C13_TimerMapPerFacade ==
    /\ [](\A i \in 1..Len(facades) : \A k \in Keys :
              (k \in DOMAIN facades[i].start_times) <=> (timer_hist[i][k] = "log_start"))
    /\ [][ (last_op'.op = "log_end"
                /\ timer_hist[last_inst'][last_op'.key] # "log_start") =>
              /\ Len(emitted') = 2
              /\ emitted'[1].level = "WARNING"
              /\ emitted'[1].msg = "[" \o facades[last_inst'].prefix
                      \o "] log_end called for key '" \o last_op'.key
                      \o "' without a corresponding log_start."
              /\ emitted'[2].level = "INFO"
              /\ emitted'[2].msg = "[" \o facades[last_inst'].prefix
                      \o "] (BEACON - [" \o last_op'.key
                      \o "] - END (Elapsed time N/A s)) " \o last_op'.message ]_vars
    /\ [][ last_op'.op \in {"log_start", "log_end"} =>
              \A j \in 1..Len(facades) \ {last_inst'} :
                  facades'[j].start_times = facades[j].start_times ]_vars
    /\ [][ last_op'.op \in LeveledOps \cup {"update_prefix"} =>
              \A j \in 1..Len(facades) :
                  facades'[j].start_times = facades[j].start_times ]_vars

\* log_start("k1") ran on facade 1; log_end("k1") on facade 2, bound to the
\* same channel, then warned and reported N/A, and facade 1 keeps its timer.
C13_Witness ==
    /\ facades[1].logger = facades[2].logger
    /\ timer_hist[1]["k1"] = "log_start"
    /\ "k1" \in DOMAIN facades[1].start_times
    /\ last_op.op = "log_end"
    /\ last_op.key = "k1"
    /\ last_inst = 2
    /\ timer_hist[2]["k1"] = "log_end"
    /\ Len(emitted) = 2
    /\ emitted[1].level = "WARNING"

====
